---- MODULE Spec2Model ----
(***************************************************************************)
(* Model of the three CryptoRank scraping programs of this repository:     *)
(*   "fund"    index.js + scraper.js     (fund pages, cache = output file) *)
(*   "rounds"  funding-rounds.js + funding-rounds-scraper.js               *)
(*   "project" project-details.js + project-details-scraper.js             *)
(* One behaviour is a sequence of runs of one program against one output   *)
(* file; a run may be killed at any point and the next run starts from the *)
(* file the previous one left.                                             *)
(***************************************************************************)
EXTENDS Integers, Sequences, FiniteSets, TLC

\* ---------------------------------------------------------------- constants
MAX_RETRIES == 3
ITEMS_PER_PAGE == 20

\* bounds of the model
MaxTargets == 2
MaxRuns == 2
\* funds in the inputs of the merge taken on its own
MaxMergeKeys == 3
\* rounds of the funding data when extractUniqueProjects is taken on its own
MaxRounds == 4

Keys == 1..MaxTargets
Orchs == {"fund", "rounds", "project"}

\* Messages of the failures the browser library raises.  "nomsg" stands for a
\* thrown value that carries no message string.
ConnLossSignatures == {"Connection closed", "Protocol error", "Target closed"}
ThrownMsgs == {"Protocol error", "Navigation timeout"}
Thrown == ThrownMsgs \cup {"nomsg"}

\* a classification that takes no message for a connection loss
NoConnLoss(msg) == FALSE

\* error.message.includes('Connection closed') || ... 'Protocol error' || ... 'Target closed'
IsConnLoss(msg) == msg \in ConnLossSignatures

\* ---------------------------------------------------------------- variables
VARIABLES
  orch,         \* which program this behaviour runs
  tier2,        \* fund: --tier2 given (includeTier2)
  run,          \* number of the current run
  pc,           \* position of main
  exitCode,     \* process exit code once pc = "done"
  file,         \* the output file on disk
  input,        \* project: fundingData.data of the input file (else <<>>)
  limit,        \* rounds, project: --limit of this run (0: none)
  targets,      \* funds / page numbers / projects enumerated by this run
  cache,        \* fund: cache Map; project: projectDetails; rounds: <<>>
  toScrape,     \* fundsToScrape / pages / projectsToScrape
  i,            \* loop index (0-based)
  acc,          \* fund: newResults; rounds: allData
  successCount,
  failCount,
  scraper,      \* main has created the scraper object
  browser,      \* this.browser: "null", or a handle to a "live"/"dead" connection
  orphan,       \* some connection the scraper opened is live and no longer referenced
  attempt,      \* loop variable of scrapeFund/scrapePage/scrapeProject
  page,         \* the local `page` is non-null
  lastError,
  ret,          \* extracted payload, then the value the scrape call returns
  \* ---- history variables (not program state)
  tries,        \* attempts started in the current scrape call
  nZero,        \* attempts of the current call that extracted zero data
  fetched,      \* targets this run has navigated to
  okNow,        \* targets this run has scraped successfully
  okSaved,      \* targets scraped successfully and written to the file by this run
  nPartial,     \* persist invocations with partial = true in this run
  nFinal,       \* persist invocations with partial = false in this run
  lastSave,     \* outcome of the last partial save: "none", "ok", "failed"
  nThrottle,    \* throttle waits of this run's loop
  nDelay,       \* RETRY_DELAY_MS waits of the current scrape call
  stale,        \* a tab of the current call whose page.close() raised is still open
  shotFailed,   \* a screenshot of the current call failed (recorded under SpecShot)
  lastFetch,    \* what the last fetch of the current call met (recorded under SpecShot)
  prev          \* how the previous run ended and what it left

vars == <<orch, tier2, run, pc, exitCode, file, input, limit, targets, cache, toScrape,
          i, acc, successCount, failCount, scraper, browser, orphan, attempt, page,
          lastError, ret, tries, nZero, fetched, okNow, okSaved,
          nPartial, nFinal, lastSave, nThrottle, nDelay, stale, shotFailed, lastFetch,
          prev>>

fixedVars == <<orch, tier2, input>>
progVars == <<limit, targets, cache, toScrape, i, acc, successCount, failCount>>
sessVars == <<scraper, browser, orphan>>
callVars == <<attempt, page, lastError, ret, tries, nZero>>
histVars == <<fetched, okNow, okSaved, nPartial, nFinal, lastSave>>

\* ---------------------------------------------------------------- helpers
Range(s) == {s[n] : n \in 1..Len(s)}

\* sequences without repetition over S, of length at most n
InjSeqs(S, n) ==
  {s \in UNION {[1..m -> S] : m \in 0..n} : \A a, b \in 1..Len(s) : a # b => s[a] # s[b]}

SeqsUpTo(S, n) == UNION {[1..m -> S] : m \in 0..n}

Min(a, b) == IF a < b THEN a ELSE b

\* Math.ceil(limit / ITEMS_PER_PAGE)
Ceil(a, b) == (a + b - 1) \div b

RECURSIVE SumRows(_)
SumRows(s) == IF s = <<>> THEN 0 ELSE Head(s).rows + SumRows(Tail(s))

\* ---------------------------------------------------------------- the output file
\* file.st is what a reader of the file finds: "missing" (existsSync is false),
\* "unreadable" (readFile raises), "torn" (not valid JSON), "null" (the JSON value
\* null), "noarray" (JSON without a data array), "ok" (JSON with a data array)
NoMeta == [none |-> TRUE]
\* existsSync(outputFile) is false
MissingFile == [st |-> "missing", partial |-> FALSE, data |-> <<>>, meta |-> NoMeta]
\* writeFile has opened (truncated) the file and not yet written all of it
TornFile == [st |-> "torn", partial |-> FALSE, data |-> <<>>, meta |-> NoMeta]

\* ---------------------------------------------------------------- fund program
\* upstream data: tier and name of fund k (names sort in the reverse order of keys)
TierOf(k) == IF k < MaxTargets THEN 1 ELSE 2
NameRank(k) == MaxTargets + 1 - k

TargetTiers(t2) == IF t2 THEN {1, 2} ELSE {1}

\* fetchFundsByTiers: json.data.filter(fund => tiers.includes(fund.tier))
FundLists(t2) == InjSeqs({k \in Keys : TierOf(k) \in TargetTiers(t2)}, MaxTargets)

\* what extractSocialLinks can find: website/twitter ("main"), only the other
\* platforms ("other"), nothing ("none")
FundPayloads == {"main", "other", "none"}

\* main: const result = { key, tier, website: website || null, twitter: twitter || null,
\* scrapedAt, error: error || null }, other links moved under other_socials
FundRecord(k, r, at) ==
  [key |-> k, tier |-> TierOf(k), links |-> r.payload, error |-> r.error, at |-> at]

\* loadCache: fund.website || fund.twitter || fund.telegram || ... || fund.reddit.
\* A persisted record holds website and twitter at its top level; telegram..reddit
\* are stored under other_socials, so the top-level reads of them are undefined.
HasAnyLink(f) == f.links = "main"

CacheEligible(f) == f.error = "null" /\ HasAnyLink(f)

\* an entry of the data array that is the JSON value null
NullFund == [key |-> 0, tier |-> 0, links |-> "none", error |-> "null", at |-> 0]

\* for (const x of json.data) { x.website / x.projectKey ... }: reading a property
\* of a null entry raises a TypeError, which ends the loop at that entry
RECURSIVE PrefixBefore(_, _)
PrefixBefore(data, nul) ==
  IF data = <<>> \/ Head(data) = nul THEN <<>>
  ELSE <<Head(data)>> \o PrefixBefore(Tail(data), nul)

\* what raises inside the try block of loadCache / loadCachedDetails: readFile,
\* JSON.parse, json.data of null, a property of a null entry
RaisesInLoad(f, nul) ==
  \/ f.st \in {"unreadable", "torn", "null"}
  \/ f.st = "ok" /\ \E n \in 1..Len(f.data) : f.data[n] = nul

\* loadCache: if (!existsSync) return cache; try { read, parse, if (json.data &&
\* Array.isArray(json.data)) for (fund of json.data) if (!fund.error && hasAnyLink)
\* cache.set(fund.key, fund); return cache } catch (error) { warn; return cache }
LoadCache(f) ==
  IF f.st # "ok" THEN <<>> ELSE SelectSeq(PrefixBefore(f.data, NullFund), CacheEligible)

HasKey(s, k) == \E n \in 1..Len(s) : s[n].key = k

\* Map.set(key, value): rebinds in place, or appends
MapSet(m, rec) ==
  IF HasKey(m, rec.key)
    THEN [n \in 1..Len(m) |-> IF m[n].key = rec.key THEN rec ELSE m[n]]
    ELSE Append(m, rec)

RECURSIVE MapSetAll(_, _)
MapSetAll(m, recs) ==
  IF recs = <<>> THEN m ELSE MapSetAll(MapSet(m, Head(recs)), Tail(recs))

\* the comparator of the sort: tier, then name.localeCompare
FundLess(a, b) ==
  \/ a.tier < b.tier
  \/ a.tier = b.tier /\ NameRank(a.key) < NameRank(b.key)

\* a sort that leaves the array as it is
Unsorted(s) == s

RECURSIVE InsertFund(_, _)
InsertFund(x, s) ==
  IF s = <<>> THEN <<x>>
  ELSE IF FundLess(x, Head(s)) THEN <<x>> \o s
  ELSE <<Head(s)>> \o InsertFund(x, Tail(s))

RECURSIVE SortFunds(_)
SortFunds(s) ==
  IF s = <<>> THEN <<>>
  ELSE InsertFund(s[Len(s)], SortFunds(SubSeq(s, 1, Len(s) - 1)))

\* a merge that forgets the cache
MergeNewOnly(c, new, t2) ==
  LET inTier(f) == f.tier \in TargetTiers(t2)
  IN  SortFunds(SelectSeq(MapSetAll(<<>>, new), inTier))

\* a merge in which the cached record wins over the new one
MergeCacheLast(c, new, t2) ==
  LET allResultsMap == MapSetAll(MapSetAll(<<>>, new), c)
      inTier(f) == f.tier \in TargetTiers(t2)
  IN  SortFunds(SelectSeq(allResultsMap, inTier))

\* savePartialResults / main step 5: cache first, new results overwrite, filter by
\* target tier, sort
MergeResults(c, new, t2) ==
  LET allResultsMap == MapSetAll(MapSetAll(<<>>, c), new)
      inTier(f) == f.tier \in TargetTiers(t2)
  IN  SortFunds(SelectSeq(allResultsMap, inTier))

NoError(f) == f.error = "null"
HasError(f) == f.error # "null"

\* a save that writes the cached records only
FundOutputCacheOnly(c, new, t2, partial) ==
  LET allResults == MergeResults(c, <<>>, t2)
  IN  [st |-> "ok", partial |-> partial, data |-> allResults,
       meta |-> [total |-> Len(allResults),
                 success |-> Len(SelectSeq(allResults, NoError)),
                 failed |-> Len(SelectSeq(allResults, HasError))]]

FundOutput(c, new, t2, partial) ==
  LET allResults == MergeResults(c, new, t2)
  IN  [st |-> "ok", partial |-> partial, data |-> allResults,
       meta |-> [total |-> Len(allResults),
                 success |-> Len(SelectSeq(allResults, NoError)),
                 failed |-> Len(SelectSeq(allResults, HasError))]]

\* ---------------------------------------------------------------- funding-rounds program
\* values of --limit that the model runs with: the first and the last limit of
\* each page count
Limits == {(p - 1) * ITEMS_PER_PAGE + 1 : p \in 1..MaxTargets}
            \cup {p * ITEMS_PER_PAGE : p \in 1..MaxTargets}

PagesNeeded(lim) == Ceil(lim, ITEMS_PER_PAGE)

RoundsPayloads == {"rows", "none"}

\* rows of one scraped page, kept as one entry
PageRows(p, r, at) ==
  IF r.payload = "rows" THEN <<[page |-> p, rows |-> ITEMS_PER_PAGE, at |-> at]>> ELSE <<>>

RoundsOutput(data, lim, pagesScraped, partial) ==
  [st |-> "ok", partial |-> partial, data |-> data,
   meta |-> [total |-> SumRows(data), limit |-> lim, pagesScraped |-> pagesScraped]]

\* ---------------------------------------------------------------- project-details program
\* fundingData.data: one projectKey per round, 0 for a round without projectKey
\* (keys are opaque to this program: lists that differ by a renaming of the keys
\* are taken once, with the keys numbered in the order of their first occurrence)
InputLists ==
  {s \in SeqsUpTo(0..MaxTargets, MaxTargets) \ {<<>>} :
     \A n \in 1..Len(s) : \A k \in 1..(s[n] - 1) : \E q \in 1..(n - 1) : s[q] = k}
LimitArgs == {0, 1}    \* 0: no --limit

ProjectPayloads == {"fields", "none"}

NullDetails == [payload |-> "null", at |-> 0]
NoEntry == [has |-> FALSE, details |-> NullDetails, error |-> "null"]

RECURSIVE ExtractFrom(_, _)
ExtractFrom(rounds, seen) ==
  IF rounds = <<>> THEN <<>>
  ELSE IF Head(rounds) # 0 /\ Head(rounds) \notin seen
    THEN <<Head(rounds)>> \o ExtractFrom(Tail(rounds), seen \cup {Head(rounds)})
    ELSE ExtractFrom(Tail(rounds), seen)

\* an extraction that takes a project for every round with a projectKey
ProjectsOfAllRounds(fundingRounds) ==
  LET hasKey(k) == k # 0
  IN  SelectSeq(fundingRounds, hasKey)

extractUniqueProjects(fundingRounds) == ExtractFrom(fundingRounds, {})

\* if (limit && limit < projects.length) projects = projects.slice(0, limit)
ApplyLimit(projects, lim) ==
  IF lim # 0 /\ lim < Len(projects) THEN SubSeq(projects, 1, lim) ELSE projects

\* a save that writes one record per project
EnrichProjects(data, projectDetails) ==
  LET projects == extractUniqueProjects(data)
  IN  [n \in 1..Len(projects) |->
         LET det == projectDetails[projects[n]]
         IN  [projectKey |-> projects[n],
              details |-> IF det.has THEN det.details ELSE NullDetails,
              detailsError |-> IF det.has THEN det.error ELSE "null"]]

\* saveResults: data.map(round => ({...round, details: details?.details || null,
\* detailsError: details?.error || null}))
Enrich(data, projectDetails) ==
  [n \in 1..Len(data) |->
     LET det == IF data[n] \in Keys THEN projectDetails[data[n]] ELSE NoEntry
     IN  [projectKey |-> data[n],
          details |-> IF det.has THEN det.details ELSE NullDetails,
          detailsError |-> IF det.has THEN det.error ELSE "null"]]

ProjectOutput(data, projectDetails, totalProjects, successful, failed, partial) ==
  [st |-> "ok", partial |-> partial, data |-> Enrich(data, projectDetails),
   meta |-> [total |-> totalProjects, success |-> successful, failed |-> failed]]

\* loadCachedDetails: round.projectKey && round.details && !round.detailsError
DetailsEligible(round) ==
  round.projectKey # 0 /\ round.details # NullDetails /\ round.detailsError = "null"

\* an entry of the data array that is the JSON value null
NullRound == [projectKey |-> -1, details |-> NullDetails, detailsError |-> "null"]

\* loadCachedDetails: if (!existsSync) return cache; try { read, parse, if (data.data
\* && Array.isArray(data.data)) for (round of data.data) if (eligible)
\* cache[round.projectKey] = {details, error: null} } catch (e) { } return cache
loadCachedDetails(f) ==
  LET rounds == IF f.st = "ok" THEN PrefixBefore(f.data, NullRound) ELSE <<>>
  IN  [k \in Keys |->
         IF \E n \in 1..Len(rounds) : rounds[n].projectKey = k /\ DetailsEligible(rounds[n])
           THEN LET n == CHOOSE m \in 1..Len(rounds) :
                           /\ rounds[m].projectKey = k /\ DetailsEligible(rounds[m])
                           /\ \A q \in (m + 1)..Len(rounds) :
                                ~(rounds[q].projectKey = k /\ DetailsEligible(rounds[q]))
                IN  [has |-> TRUE, details |-> rounds[n].details, error |-> "null"]
           ELSE NoEntry]

CachedKeys(projectDetails) == {k \in Keys : projectDetails[k].has}

\* ---------------------------------------------------------------- initial state
NoRet == [payload |-> "none", error |-> "null"]
NoFetch == [nav |-> "none", late |-> FALSE, p |-> "none", shot |-> FALSE, close |-> "ok"]
NoPrev == [how |-> "none", limit |-> 0, targets |-> <<>>, ok |-> {}, allOK |-> FALSE,
           data |-> <<>>]

Init ==
  /\ orch \in Orchs
  /\ tier2 \in (IF orch = "fund" THEN BOOLEAN ELSE {FALSE})
  /\ input \in (IF orch = "project" THEN InputLists ELSE {<<>>})
  /\ run = 1
  /\ pc = "start"
  /\ exitCode = -1
  /\ file = MissingFile
  /\ limit = 0
  /\ targets = <<>>
  /\ cache = <<>>
  /\ toScrape = <<>>
  /\ i = 0
  /\ acc = <<>>
  /\ successCount = 0
  /\ failCount = 0
  /\ scraper = FALSE
  /\ browser = "null"
  /\ orphan = FALSE
  /\ attempt = 0
  /\ page = FALSE
  /\ lastError = "null"
  /\ ret = NoRet
  /\ tries = 0
  /\ nZero = 0
  /\ fetched = {}
  /\ okNow = {}
  /\ okSaved = {}
  /\ nPartial = 0
  /\ nFinal = 0
  /\ lastSave = "none"
  /\ nThrottle = 0
  /\ nDelay = 0
  /\ stale = FALSE
  /\ shotFailed = FALSE
  /\ lastFetch = NoFetch
  /\ prev = NoPrev

\* a process that always ends with exit code 0
ExitIgnoringCode(code) ==
  /\ pc' = "done"
  /\ exitCode' = 0

\* process.exit(code), or main returning: the process is gone
Exit(code) ==
  /\ pc' = "done"
  /\ exitCode' = code

\* ---------------------------------------------------------------- main: startup
\* fund main step 1: fetchTier1Funds / fetchTier1And2Funds, exit 1 when it throws
FetchFunds ==
  /\ orch = "fund" /\ pc = "start"
  /\ \/ /\ Exit(1)
        /\ UNCHANGED targets
     \/ /\ \E funds \in FundLists(tier2) : targets' = funds
        /\ pc' = "loadCache"
        /\ UNCHANGED exitCode
  /\ UNCHANGED <<fixedVars, run, file, limit, cache, toScrape, i, acc, successCount,
                 failCount, sessVars, callVars, histVars, prev, lastFetch, shotFailed, stale, nThrottle, nDelay>>

\* funding-rounds main: parseArgs, pagesNeeded = Math.ceil(limit / ITEMS_PER_PAGE)
ParseLimit ==
  /\ orch = "rounds" /\ pc = "start"
  /\ \E l \in Limits :
       /\ limit' = l
       /\ targets' = [p \in 1..PagesNeeded(l) |-> p]
       /\ toScrape' = [p \in 1..PagesNeeded(l) |-> p]
  /\ pc' = "connect"
  /\ UNCHANGED <<fixedVars, run, exitCode, file, cache, i, acc, successCount, failCount,
                 sessVars, callVars, histVars, prev, lastFetch, shotFailed, stale, nThrottle, nDelay>>

\* project-details main steps 1-2: readFundingRounds (exit 1 when it throws),
\* extractUniqueProjects, --limit
ReadRounds ==
  /\ orch = "project" /\ pc = "start"
  /\ \/ /\ Exit(1)
        /\ UNCHANGED <<limit, targets>>
     \/ /\ \E l \in LimitArgs :
             /\ limit' = l
             /\ targets' = ApplyLimit(extractUniqueProjects(input), l)
        /\ pc' = "loadCache"
        /\ UNCHANGED exitCode
  /\ UNCHANGED <<fixedVars, run, file, cache, toScrape, i, acc, successCount, failCount,
                 sessVars, callVars, histVars, prev, lastFetch, shotFailed, stale, nThrottle, nDelay>>

\* a filter that keeps the cached funds
ScrapeAllFunds(funds, c) == funds

\* const fundsToScrape = funds.filter(f => !cache.has(f.key))
FundsToScrape(funds, c) ==
  LET notCached(k) == ~HasKey(c, k)
  IN  SelectSeq(funds, notCached)

\* fund main step 2: loadCache, fundsToScrape = funds.filter(f => !cache.has(f.key)),
\* return when nothing is left to scrape
LoadFundCache ==
  /\ orch = "fund" /\ pc = "loadCache"
  /\ LET c == LoadCache(file)
         todo == FundsToScrape(targets, c)
     IN  /\ cache' = c
         /\ toScrape' = todo
         /\ IF todo = <<>> THEN Exit(0) ELSE pc' = "connect" /\ UNCHANGED exitCode
  /\ UNCHANGED <<fixedVars, run, file, limit, targets, i, acc, successCount, failCount,
                 sessVars, callVars, histVars, prev, lastFetch, shotFailed, stale, nThrottle, nDelay>>

\* project-details main step 3: loadCachedDetails, projectsToScrape, successCount =
\* cachedCount; the connection is opened only if something is left to scrape
LoadProjectCache ==
  /\ orch = "project" /\ pc = "loadCache"
  /\ LET c == loadCachedDetails(file)
         notCached(k) == ~c[k].has
         todo == SelectSeq(targets, notCached)
     IN  /\ cache' = c
         /\ toScrape' = todo
         /\ successCount' = Cardinality(CachedKeys(c))
         /\ pc' = IF todo = <<>> THEN "loop" ELSE "connect"
  /\ UNCHANGED <<fixedVars, run, exitCode, file, limit, targets, i, acc, failCount,
                 sessVars, callVars, histVars, prev, lastFetch, shotFailed, stale, nThrottle, nDelay>>

\* main: new Scraper(), await scraper.connect(), exit 1 when it throws
Connect ==
  /\ pc = "connect"
  /\ scraper' = TRUE
  /\ \/ /\ browser' = "live"
        /\ pc' = "loop"
        /\ UNCHANGED exitCode
     \/ /\ Exit(1)
        /\ UNCHANGED browser
  /\ UNCHANGED <<fixedVars, run, file, progVars, orphan, callVars, histVars, prev, lastFetch, shotFailed, stale, nThrottle, nDelay>>

\* ---------------------------------------------------------------- the scrape call
\* the target of the current loop iteration
Target == toScrape[i + 1]

\* a loop that gives up one attempt early
LoopStopsEarly(a) == a < MAX_RETRIES

\* a loop that makes one attempt more
LoopOneMore(a) == a <= MAX_RETRIES + 1

\* for (let attempt = 1; attempt <= MAX_RETRIES; attempt++)
LoopContinues(a) == a <= MAX_RETRIES

\* if (... && attempt < MAX_RETRIES) / if (attempt < MAX_RETRIES)
RetriesLeft(a) == a < MAX_RETRIES

\* a catch block that waits after every failed attempt
DelaysAlways(a) == TRUE

\* catch: if (attempt < MAX_RETRIES) { ...; await delay(RETRY_DELAY_MS); }
DelaysAfter(a) == a < MAX_RETRIES

\* a loop that waits after every unit
WaitsAlways(idx, len) == TRUE

\* main loop: if (i < toScrape.length - 1) await delay(DELAY_BETWEEN_..._MS)
\* (rounds: if (pageNumber < pagesNeeded), with pageNumber = i + 1)
WaitsAfter(idx, len) == idx < len - 1

Payloads ==
  CASE orch = "fund" -> FundPayloads
    [] orch = "rounds" -> RoundsPayloads
    [] orch = "project" -> ProjectPayloads

\* main loop: call scrapeFund(fund.key) / scrapePage(pageNumber) / scrapeProject(key)
BeginScrape ==
  /\ pc = "loop" /\ i < Len(toScrape)
  /\ attempt' = 1
  /\ lastError' = "null"
  /\ pc' = "attempt"
  /\ UNCHANGED <<fixedVars, run, exitCode, file, progVars, sessVars, page, ret, tries,
                 nZero, histVars, prev, lastFetch, shotFailed, stale, nThrottle, nDelay>>

\* a session that takes every handle for connected
NeverReconnects == TRUE

\* isConnected(): this.browser && this.browser.isConnected()
isConnected == browser = "live"

\* a failed result that still carries extracted links
ResultKeepsLinks(m) == [payload |-> "main", error |-> m]

\* after the loop: return { website: null, ..., reddit: null / data: [] /
\* details: null, error: lastError?.message || 'Unknown error' }
ExhaustedResult(m) == [payload |-> "none", error |-> m]

\* } catch (error) { lastError = error; close the page if it is set;
\*   if (error.message.includes(..)) this.browser = null;
\*   if (attempt < MAX_RETRIES) await delay(RETRY_DELAY_MS) }
\* then attempt++ and either the next attempt or, after the loop,
\* return { ..., error: lastError?.message || 'Unknown error' }.
\* m is the thrown message and b the handle at the time of the throw.  A thrown
\* value without a message makes error.message.includes raise a TypeError, which
\* leaves the call and ends main.  A handle set to null is not closed: its
\* connection stays open unless it is the connection itself that died.
Catch(m, b) ==
  /\ lastError' = m
  /\ page' = FALSE
  /\ nDelay' = IF m # "nomsg" /\ DelaysAfter(attempt) THEN nDelay + 1 ELSE nDelay
  /\ IF m = "nomsg"
       THEN /\ Exit(1)
            /\ browser' = b
            /\ UNCHANGED <<orphan, attempt, ret>>
       ELSE /\ browser' = IF IsConnLoss(m) THEN "null" ELSE b
            /\ IF IsConnLoss(m) /\ b = "live"
                 THEN orphan' \in {orphan, TRUE}
                 ELSE UNCHANGED orphan
            /\ attempt' = attempt + 1
            /\ IF LoopContinues(attempt + 1)
                 THEN pc' = "attempt" /\ UNCHANGED ret
                 ELSE /\ ret' = ExhaustedResult(m)
                      /\ pc' = "returned"
            /\ UNCHANGED exitCode

\* ensureConnected(): if (!this.isConnected()) await this.connect().  The handle
\* once it has returned without raising.
EnsuredHandle == IF isConnected THEN browser ELSE "live"

\* try { await this.ensureConnected(); page = await this.browser.newPage();
\* both succeed: newPage() can succeed only on a connected handle
TabOpens ==
  /\ pc = "attempt"
  /\ EnsuredHandle = "live"
  /\ tries' = tries + 1
  /\ browser' = EnsuredHandle
  /\ page' = TRUE
  /\ pc' = "fetch"
  /\ UNCHANGED <<exitCode, orphan, attempt, lastError, ret>>
  /\ UNCHANGED <<fixedVars, run, file, progVars, scraper, nZero, histVars, prev, lastFetch, shotFailed, stale, nThrottle, nDelay>>

\* try { await this.ensureConnected(); page = await this.browser.newPage(); ...
\* ensureConnected connects when isConnected() is false; connect() and newPage()
\* may raise
OpenTab ==
  \/ TabOpens
  \/ /\ pc = "attempt"
     /\ tries' = tries + 1
     /\ \/ \* connected (or connect() succeeds) and newPage() raises
           \E m \in Thrown : Catch(m, EnsuredHandle)
        \/ \* connect() raises
           /\ ~isConnected
           /\ \E m \in Thrown : Catch(m, browser)
     /\ UNCHANGED <<fixedVars, run, file, progVars, scraper, nZero, histVars, prev, lastFetch, shotFailed, stale, nThrottle>>

\* throw new Error('No social links found - retrying') /
\* throw new Error('No funding rounds found - retrying')
RetryingMsg ==
  IF orch = "fund" THEN "No social links found - retrying"
                   ELSE "No funding rounds found - retrying"

\* fund, rounds: if (zero data && attempt < MAX_RETRIES) { close; throw '... - retrying' }
RetriesZero(p) == orch \in {"fund", "rounds"} /\ p = "none" /\ RetriesLeft(attempt)

\* fund: if (!hasAnyLinks(links)) return { ...links, error: 'No social links found' }
ReturnsNoLinks(p) == orch = "fund" /\ p = "none" /\ ~RetriesLeft(attempt)

\* the message of the error page.screenshot raises
ScreenshotMsg == "Screenshot failed"

\* a saveScreenshot that lets the error of a failed capture out
ScreenshotRaisesIfFailed(shotFails) == shotFails

\* saveScreenshot: try { mkdir; await page.screenshot(...) } catch (e) { /* ignore */ }
\* shotFails: the capture fails.  The call raises in no case.
ScreenshotRaises(shotFails) == FALSE

\* a catch block whose page.close() always closes the tab
CloseAlwaysCloses == UNCHANGED stale

\* catch: if (page) { ...; try { await page.close(); } catch (e) { /* ignore */ } }
\* the tab is closed, or close() raises, is ignored, and the tab stays open
CloseInCatch == stale' \in {stale, TRUE}

\* the message of the TimeoutError page.waitForSelector raises
SelectorMsg == "Waiting for selector failed"

\* a readiness wait whose timeout ends the attempt
ReadinessRaisesOnTimeout(timedOut) == timedOut

\* try { await page.waitForSelector(..., { timeout: SELECTOR_TIMEOUT_MS }) }
\* catch (e) { await delay(2000) / continue anyway }: the timeout is swallowed
ReadinessRaises(timedOut) == FALSE

\* what one pass through the rest of the try block can meet: nav, what page.goto
\* or the extraction does ("ok" or the message it raises); late, the readiness wait
\* times out; p, the payload extracted; shot, the capture of the screenshot fails;
\* close, what page.close() does ("ok" or the message it raises)
FetchInputs ==
  {[nav |-> m, late |-> FALSE, p |-> "none", shot |-> FALSE, close |-> "ok"] : m \in Thrown}
    \cup {[nav |-> "ok", late |-> l, p |-> p, shot |-> sh, close |-> c] :
            l \in BOOLEAN, p \in Payloads, sh \in BOOLEAN, c \in {"ok"} \cup Thrown}

\* the rest of the try block: page.goto(url), waitForSelector (a timeout is
\* swallowed), extraction, the zero-data rule, saveScreenshot, page.close(), return;
\* whatever raises goes to the catch block, which closes the page
FetchWith(inp) ==
  /\ pc = "fetch"
  /\ fetched' = fetched \cup {Target}
  /\ IF inp.nav # "ok"
       THEN Catch(inp.nav, browser) /\ CloseInCatch /\ UNCHANGED nZero
     ELSE IF ReadinessRaises(inp.late)
       THEN Catch(SelectorMsg, browser) /\ CloseInCatch /\ UNCHANGED nZero
     ELSE
       /\ nZero' = IF inp.p = "none" THEN nZero + 1 ELSE nZero
       /\ IF ScreenshotRaises(inp.shot)
            THEN Catch(ScreenshotMsg, browser) /\ CloseInCatch
          ELSE IF inp.close # "ok"
            THEN Catch(inp.close, browser) /\ CloseInCatch
          ELSE
            /\ UNCHANGED stale
            /\ IF RetriesZero(inp.p)
                 THEN Catch(RetryingMsg, browser)
                 ELSE /\ ret' = IF ReturnsNoLinks(inp.p)
                                  THEN [payload |-> "none", error |-> "No social links found"]
                                  ELSE [payload |-> inp.p, error |-> "null"]
                      /\ page' = FALSE
                      /\ pc' = "returned"
                      /\ UNCHANGED <<exitCode, browser, orphan, attempt, lastError, nDelay>>
  /\ UNCHANGED <<fixedVars, run, file, progVars, scraper, tries, okNow, okSaved, nPartial,
                 nFinal, lastSave, prev, nThrottle>>

\* By ReadinessRaises and ScreenshotRaises a fetch does not depend on what
\* becomes of its readiness wait and of its screenshot: the fetches in which both
\* succeed stand for all of them where these outcomes are not recorded.
PlainFetchInputs ==
  {[nav |-> m, late |-> FALSE, p |-> "none", shot |-> FALSE, close |-> "ok"] : m \in Thrown}
    \cup {[nav |-> "ok", late |-> FALSE, p |-> p, shot |-> FALSE, close |-> c] :
            p \in Payloads, c \in {"ok"} \cup Thrown}

\* one attempt's fetch
Fetch ==
  /\ \E inp \in PlainFetchInputs : FetchWith(inp)
  /\ UNCHANGED <<shotFailed, lastFetch>>

\* ---------------------------------------------------------------- main: the loop body
\* fund: build the result record, newResults.push; rounds: allData.push(...data),
\* pagesScraped++; project: projectDetails[key] = result; the counters.  The locals
\* of the finished call are gone.
RecordResult ==
  /\ pc = "returned"
  /\ successCount' = IF ret.error = "null" THEN successCount + 1 ELSE successCount
  /\ failCount' = IF ret.error = "null" THEN failCount ELSE failCount + 1
  /\ okNow' = IF ret.error = "null" THEN okNow \cup {Target} ELSE okNow
  /\ CASE orch = "fund" ->
            /\ acc' = Append(acc, FundRecord(Target, ret, run))
            /\ UNCHANGED cache
       [] orch = "rounds" ->
            /\ acc' = IF ret.error = "null" THEN acc \o PageRows(Target, ret, run) ELSE acc
            /\ UNCHANGED cache
       [] orch = "project" ->
            /\ cache' = [cache EXCEPT ![Target] =
                           [has |-> TRUE,
                            details |-> IF ret.error = "null"
                                          THEN [payload |-> ret.payload, at |-> run]
                                          ELSE NullDetails,
                            error |-> ret.error]]
            /\ UNCHANGED acc
  /\ attempt' = 0
  /\ page' = FALSE
  /\ lastError' = "null"
  /\ ret' = NoRet
  /\ tries' = 0
  /\ nZero' = 0
  /\ nDelay' = 0
  /\ stale' = FALSE
  /\ shotFailed' = FALSE
  /\ lastFetch' = NoFetch
  /\ pc' = "save"
  /\ UNCHANGED <<fixedVars, run, exitCode, file, limit, targets, toScrape, i, sessVars,
                 fetched, okSaved, nPartial, nFinal, lastSave, prev, nThrottle>>

\* the document a save writes
Output(partial) ==
  CASE orch = "fund" -> FundOutput(cache, acc, tier2, partial)
    [] orch = "rounds" -> RoundsOutput(acc, limit, successCount, partial)
    [] orch = "project" ->
         ProjectOutput(input, cache, Len(targets), successCount, failCount, partial)

\* a partial save whose error ends the process
SaveErrorFatal ==
  /\ lastSave' = "failed"
  /\ Exit(1)
  /\ UNCHANGED file

\* try { await savePartialResults(..) / saveResults(.., true) } catch (e) { /* ignore */ }
SaveErrorIgnored ==
  /\ lastSave' = "failed"
  /\ pc' = "throttle"
  /\ UNCHANGED <<file, exitCode>>

\* try { await savePartialResults(...) / saveResults(..., true) } catch (e) { ignore }:
\* writeFile opens the file for writing, which truncates it, or fails to open it
SaveBegin ==
  /\ pc = "save"
  /\ nPartial' = nPartial + 1
  /\ \/ /\ file' = TornFile
        /\ pc' = "saving"
        /\ UNCHANGED <<lastSave, exitCode>>
     \/ SaveErrorIgnored
  /\ UNCHANGED <<fixedVars, run, progVars, sessVars, callVars, fetched, okNow,
                 okSaved, nFinal, prev, lastFetch, shotFailed, stale, nThrottle, nDelay>>

\* writeFile writes the document
SaveEnd ==
  /\ pc = "saving"
  /\ file' = Output(TRUE)
  /\ lastSave' = "ok"
  /\ okSaved' = okNow
  /\ pc' = "throttle"
  /\ UNCHANGED <<fixedVars, run, exitCode, progVars, sessVars, callVars, fetched, okNow,
                 nPartial, nFinal, prev, lastFetch, shotFailed, stale, nThrottle, nDelay>>

\* if (i < toScrape.length - 1) await delay(DELAY_BETWEEN_..._MS); then i++
Throttle ==
  /\ pc = "throttle"
  /\ nThrottle' = IF WaitsAfter(i, Len(toScrape)) THEN nThrottle + 1 ELSE nThrottle
  /\ i' = i + 1
  /\ pc' = "loop"
  /\ UNCHANGED <<fixedVars, run, exitCode, file, limit, targets, cache, toScrape, acc,
                 successCount, failCount, sessVars, callVars, histVars, prev, lastFetch, shotFailed, stale, nDelay>>

\* a loop after which main goes to the final save at once
LoopExitToFinal ==
  /\ pc = "loop" /\ i >= Len(toScrape)
  /\ pc' = "final"
  /\ UNCHANGED <<fixedVars, run, exitCode, file, progVars, sessVars, callVars, histVars,
                 prev, lastFetch, shotFailed, stale, nThrottle, nDelay>>

\* the loop ends
LoopExit ==
  /\ pc = "loop" /\ i >= Len(toScrape)
  /\ pc' = "disconnect"
  /\ UNCHANGED <<fixedVars, run, exitCode, file, progVars, sessVars, callVars, histVars,
                 prev, lastFetch, shotFailed, stale, nThrottle, nDelay>>

\* ---------------------------------------------------------------- main: finalize
\* a disconnect that leaves the handle as it was
KeepsHandle(b) == b

\* disconnect(): if (this.browser) { try { close } catch (e) { }; this.browser = null }
AfterDisconnect(b) == IF b # "null" THEN "null" ELSE b

\* await scraper.disconnect() (project: only if a scraper was created):
\* if (this.browser) { try { close } catch { ignore }; this.browser = null }
Disconnect ==
  /\ pc = "disconnect"
  /\ browser' = IF scraper THEN AfterDisconnect(browser) ELSE browser
  /\ \/ UNCHANGED orphan
     \/ \* browser.close() raises and the connection stays open
        /\ scraper /\ browser = "live"
        /\ orphan' = TRUE
  /\ pc' = "final"
  /\ UNCHANGED <<fixedVars, run, exitCode, file, progVars, scraper, callVars, histVars,
                 prev, lastFetch, shotFailed, stale, nThrottle, nDelay>>

\* the final writeFile / saveResults(..., false): exit 1 when it throws
FinalBegin ==
  /\ pc = "final"
  /\ nFinal' = nFinal + 1
  /\ \/ /\ file' = TornFile
        /\ pc' = "finalizing"
        /\ UNCHANGED exitCode
     \/ /\ Exit(1)
        /\ UNCHANGED file
  /\ UNCHANGED <<fixedVars, run, progVars, sessVars, callVars, fetched, okNow, okSaved,
                 nPartial, lastSave, prev, lastFetch, shotFailed, stale, nThrottle, nDelay>>

FinalEnd ==
  /\ pc = "finalizing"
  /\ file' = Output(FALSE)
  /\ okSaved' = okNow
  /\ Exit(0)
  /\ UNCHANGED <<fixedVars, run, progVars, sessVars, callVars, fetched, okNow, nPartial,
                 nFinal, lastSave, prev, lastFetch, shotFailed, stale, nThrottle, nDelay>>

\* ---------------------------------------------------------------- environment
\* the connection to the browser endpoint drops; the program can notice it only
\* at its next isConnected(), so the drop is taken right before it
ConnDrop ==
  /\ pc = "attempt" /\ browser = "live"
  /\ browser' = "dead"
  /\ UNCHANGED <<fixedVars, run, pc, exitCode, file, progVars, scraper, orphan, callVars,
                 histVars, prev, lastFetch, shotFailed, stale, nThrottle, nDelay>>

\* the next run of the program starts on the file the last one left
NextRun(how) ==
  /\ run < MaxRuns
  /\ run' = run + 1
  /\ LET allOK == how = "exit0" /\ nFinal = 1 /\ failCount = 0
     IN  prev' = [how |-> how,
                  limit |-> IF allOK THEN limit ELSE 0,
                  targets |-> IF allOK THEN targets ELSE <<>>,
                  ok |-> IF file.st = "ok" THEN okSaved ELSE {},
                  allOK |-> allOK,
                  data |-> IF allOK THEN file.data ELSE <<>>]
  /\ pc' = "start"
  /\ exitCode' = -1
  /\ limit' = 0
  /\ targets' = <<>>
  /\ cache' = <<>>
  /\ toScrape' = <<>>
  /\ i' = 0
  /\ acc' = <<>>
  /\ successCount' = 0
  /\ failCount' = 0
  /\ scraper' = FALSE
  /\ browser' = "null"
  /\ orphan' = FALSE
  /\ attempt' = 0
  /\ page' = FALSE
  /\ lastError' = "null"
  /\ ret' = NoRet
  /\ tries' = 0
  /\ nZero' = 0
  /\ nThrottle' = 0
  /\ nDelay' = 0
  /\ stale' = FALSE
  /\ shotFailed' = FALSE
  /\ lastFetch' = NoFetch
  /\ fetched' = {}
  /\ okNow' = {}
  /\ okSaved' = {}
  /\ nPartial' = 0
  /\ nFinal' = 0
  /\ lastSave' = "none"
  /\ UNCHANGED <<fixedVars, file>>

\* the process is killed
Kill ==
  /\ pc # "done"
  /\ NextRun("killed")

\* the process has exited and the program is started again
Restart ==
  /\ pc = "done"
  /\ NextRun(IF exitCode = 0 THEN "exit0" ELSE "exit1")

Next ==
  \/ FetchFunds
  \/ ParseLimit
  \/ ReadRounds
  \/ LoadFundCache
  \/ LoadProjectCache
  \/ Connect
  \/ BeginScrape
  \/ OpenTab
  \/ Fetch
  \/ RecordResult
  \/ SaveBegin
  \/ SaveEnd
  \/ Throttle
  \/ LoopExit
  \/ Disconnect
  \/ FinalBegin
  \/ FinalEnd
  \/ ConnDrop
  \/ Kill
  \/ Restart

Spec == Init /\ [][Next]_vars

\* ---------------------------------------------------------------- the merge on its own
\* The loop never scrapes a key the cache holds, so the merge of a cached and a
\* new record for one key is exercised here on its inputs directly.
\* records loadCache can return
MergeKeys == 1..MaxMergeKeys

CacheRecords == {FundRecord(k, [payload |-> "main", error |-> "null"], 1) : k \in MergeKeys}

\* results scrapeFund can return
ScrapeResults ==
  {[payload |-> p, error |-> "null"] : p \in {"main", "other"}}
    \cup {[payload |-> "none", error |-> m] : m \in ThrownMsgs \cup {"No social links found"}}

\* records main can push to newResults: the funds come from fetchFundsByTiers
NewRecords(t2) ==
  {FundRecord(k, r, 2) : k \in {q \in MergeKeys : TierOf(q) \in TargetTiers(t2)},
                         r \in ScrapeResults}

KeyInjective(s) == \A a, b \in 1..Len(s) : a # b => s[a].key # s[b].key

InitMerge ==
  /\ orch = "fund"
  /\ tier2 \in BOOLEAN
  /\ input = <<>>
  /\ run = 2
  /\ pc = "merge"
  /\ exitCode = -1
  /\ file = MissingFile
  /\ limit = 0
  /\ targets = <<>>
  /\ cache \in {s \in SeqsUpTo(CacheRecords, MaxTargets) : KeyInjective(s)}
  /\ toScrape = <<>>
  /\ i = 0
  /\ acc \in {s \in SeqsUpTo(NewRecords(tier2), MaxTargets) : KeyInjective(s)}
  /\ successCount = 0
  /\ failCount = 0
  /\ scraper = FALSE
  /\ browser = "null"
  /\ orphan = FALSE
  /\ attempt = 0
  /\ page = FALSE
  /\ lastError = "null"
  /\ ret = NoRet
  /\ tries = 0
  /\ nZero = 0
  /\ fetched = {}
  /\ okNow = {}
  /\ okSaved = {}
  /\ nPartial = 0
  /\ nFinal = 0
  /\ lastSave = "none"
  /\ nThrottle = 0
  /\ nDelay = 0
  /\ stale = FALSE
  /\ shotFailed = FALSE
  /\ lastFetch = NoFetch
  /\ prev = NoPrev

\* savePartialResults(cache, newResults, ...) / the final merge and write of main
MergeWrite ==
  /\ pc = "merge"
  /\ \E partial \in BOOLEAN : file' = FundOutput(cache, acc, tier2, partial)
  /\ pc' = "merged"
  /\ UNCHANGED <<fixedVars, run, exitCode, progVars, sessVars, callVars, histVars, prev, lastFetch, shotFailed, stale, nThrottle, nDelay>>

NextMerge == MergeWrite

SpecMerge == InitMerge /\ [][NextMerge]_vars

\* ---------------------------------------------------------------- the cache load on its own
\* The programs write files of one shape only, so the load of a file of any
\* other content is exercised here on the file directly.
\* entries a data array of the fund file can hold
FundFileEntries ==
  {FundRecord(k, r, 1) : k \in Keys, r \in ScrapeResults} \cup {NullFund}

\* entries a data array of the project file can hold
RoundFileEntries ==
  {[projectKey |-> k, details |-> d, detailsError |-> e] :
     k \in 0..MaxTargets, d \in {NullDetails, [payload |-> "fields", at |-> 1]},
     e \in {"null", "Navigation timeout"}} \cup {NullRound}

FilesToLoad(o) ==
  {[st |-> st, partial |-> FALSE, data |-> <<>>, meta |-> NoMeta] :
     st \in {"missing", "unreadable", "torn", "null", "noarray"}}
    \cup {[st |-> "ok", partial |-> FALSE, data |-> d, meta |-> NoMeta] :
            d \in SeqsUpTo(IF o = "fund" THEN FundFileEntries ELSE RoundFileEntries,
                           MaxTargets)}

InitLoad ==
  /\ orch \in {"fund", "project"}
  /\ tier2 \in (IF orch = "fund" THEN BOOLEAN ELSE {FALSE})
  /\ input \in (IF orch = "project" THEN InputLists ELSE {<<>>})
  /\ run = 2
  /\ pc = "loadCache"
  /\ exitCode = -1
  /\ file \in FilesToLoad(orch)
  /\ limit = 0
  /\ targets \in (IF orch = "fund" THEN FundLists(tier2) \ {<<>>}
                                   ELSE {extractUniqueProjects(input)})
  /\ cache = <<>>
  /\ toScrape = <<>>
  /\ i = 0
  /\ acc = <<>>
  /\ successCount = 0
  /\ failCount = 0
  /\ scraper = FALSE
  /\ browser = "null"
  /\ orphan = FALSE
  /\ attempt = 0
  /\ page = FALSE
  /\ lastError = "null"
  /\ ret = NoRet
  /\ tries = 0
  /\ nZero = 0
  /\ fetched = {}
  /\ okNow = {}
  /\ okSaved = {}
  /\ nPartial = 0
  /\ nFinal = 0
  /\ lastSave = "none"
  /\ nThrottle = 0
  /\ nDelay = 0
  /\ stale = FALSE
  /\ shotFailed = FALSE
  /\ lastFetch = NoFetch
  /\ prev = NoPrev

NextLoad ==
  \/ LoadFundCache
  \/ LoadProjectCache

SpecLoad == InitLoad /\ [][NextLoad]_vars

\* ---------------------------------------------------------------- one run with its fetches
\* One run of a program in which what every fetch met is recorded.
FetchTracked ==
  \E inp \in FetchInputs :
    /\ FetchWith(inp)
    /\ shotFailed' = (shotFailed \/ inp.shot)
    /\ lastFetch' = inp

NextShot ==
  \/ FetchFunds
  \/ ParseLimit
  \/ ReadRounds
  \/ LoadFundCache
  \/ LoadProjectCache
  \/ Connect
  \/ BeginScrape
  \/ OpenTab
  \/ FetchTracked
  \/ RecordResult
  \/ SaveBegin
  \/ SaveEnd
  \/ Throttle
  \/ LoopExit
  \/ Disconnect
  \/ FinalBegin
  \/ FinalEnd
  \/ ConnDrop

SpecShot == Init /\ [][NextShot]_vars

\* ---------------------------------------------------------------- one run to its end
\* One run of a program in which every awaited call settles: the event loop runs
\* the continuation of an await once its promise has resolved or rejected, so a
\* step of the program that is possible is taken.  The drop of the connection is
\* a step of the environment and is not required to happen.
ProgramStep ==
  \/ FetchFunds
  \/ ParseLimit
  \/ ReadRounds
  \/ LoadFundCache
  \/ LoadProjectCache
  \/ Connect
  \/ BeginScrape
  \/ OpenTab
  \/ Fetch
  \/ RecordResult
  \/ SaveBegin
  \/ SaveEnd
  \/ Throttle
  \/ LoopExit
  \/ Disconnect
  \/ FinalBegin
  \/ FinalEnd

NextLive ==
  \/ FetchFunds
  \/ ParseLimit
  \/ ReadRounds
  \/ LoadFundCache
  \/ LoadProjectCache
  \/ Connect
  \/ BeginScrape
  \/ OpenTab
  \/ Fetch
  \/ RecordResult
  \/ SaveBegin
  \/ SaveEnd
  \/ Throttle
  \/ LoopExit
  \/ Disconnect
  \/ FinalBegin
  \/ FinalEnd
  \/ ConnDrop

SpecLive == Init /\ [][NextLive]_vars /\ WF_vars(ProgramStep)

\* ---------------------------------------------------------------- the extraction on its own
\* The first steps of the project program on funding data of any content: keys
\* in any order, repeated, and rounds without a projectKey (0).
ExtractInputs == SeqsUpTo(0..MaxTargets, MaxRounds)

InitExtract ==
  /\ orch = "project"
  /\ tier2 = FALSE
  /\ input \in ExtractInputs
  /\ run = 1
  /\ pc = "start"
  /\ exitCode = -1
  /\ file = MissingFile
  /\ limit = 0
  /\ targets = <<>>
  /\ cache = <<>>
  /\ toScrape = <<>>
  /\ i = 0
  /\ acc = <<>>
  /\ successCount = 0
  /\ failCount = 0
  /\ scraper = FALSE
  /\ browser = "null"
  /\ orphan = FALSE
  /\ attempt = 0
  /\ page = FALSE
  /\ lastError = "null"
  /\ ret = NoRet
  /\ tries = 0
  /\ nZero = 0
  /\ fetched = {}
  /\ okNow = {}
  /\ okSaved = {}
  /\ nPartial = 0
  /\ nFinal = 0
  /\ lastSave = "none"
  /\ nThrottle = 0
  /\ nDelay = 0
  /\ stale = FALSE
  /\ shotFailed = FALSE
  /\ lastFetch = NoFetch
  /\ prev = NoPrev

NextExtract == ReadRounds

SpecExtract == InitExtract /\ [][NextExtract]_vars

\* ================================================================ properties
\* ---------------------------------------------------------------- C1
\* failed attempts of the call that has just returned: all but the last when it
\* returns error null, all of them otherwise
FailedAttempts == IF ret.error = "null" THEN tries - 1 ELSE tries

\* C1: retry bound.  With MAX_RETRIES = M, a scrapeFund / scrapePage /
\* scrapeProject call whose attempts fail N times and then succeed returns error
\* null if and only if N < M, and it makes exactly min(N + 1, M) attempts; it never
\* starts more than M attempts.  (An attempt fails when it raises an error or, in
\* the last attempt of scrapeFund, yields the no-links error.)
RetryBound ==
  /\ tries <= MAX_RETRIES
  /\ pc = "returned" =>
       /\ (ret.error = "null") <=> (FailedAttempts < MAX_RETRIES)
       /\ tries = Min(FailedAttempts + 1, MAX_RETRIES)
       /\ ret.error = "null" => attempt = tries

\* two attempts raised, the third one succeeded
RetryBoundWitness ==
  /\ pc = "returned" /\ ret.error = "null" /\ ret.payload # "none"
  /\ tries = MAX_RETRIES /\ lastError \in ThrownMsgs

\* ---------------------------------------------------------------- C2
\* C2: crash resume.  After a run was killed, the next run fetches none of the
\* targets that the killed run had scraped successfully and written to the file,
\* in each of the three programs.
CrashResume == prev.how = "killed" => fetched \cap prev.ok = {}

\* ---------------------------------------------------------------- C3
\* the upstream source of this run is the one of the previous run
SameUpstream == pc # "start" /\ targets = prev.targets /\ limit = prev.limit

\* C3: idempotence.  A run that follows a run in which every target succeeded, on
\* the same upstream source, fetches nothing, and the data of the file it leaves
\* is the data the first run left.
Idempotence ==
  prev.allOK /\ SameUpstream =>
    /\ fetched = {}
    /\ pc = "done" /\ exitCode = 0 => file.data = prev.data

\* ---------------------------------------------------------------- C4
\* the run has written its final result
FinalWritten == pc = "done" /\ exitCode = 0 /\ nFinal = 1

KeysOf(data) == {data[n].key : n \in 1..Len(data)}

\* keys of the cached records that pass the tier filter of the merge
CachedInTier == {cache[n].key : n \in {q \in 1..Len(cache) : cache[q].tier \in TargetTiers(tier2)}}

\* C4 as stated: the final result of the fund program holds as many records as
\* there are unique keys among the targets of the run.
FinalCountIsTargets ==
  orch = "fund" /\ FinalWritten => Len(file.data) = Cardinality(Range(targets))

\* C4, amended: the final result of the fund program holds exactly one record for
\* every key that is a target of the run or is held by the cache in a target
\* tier: no key twice, no target (successful or failed) missing.
FinalCountIsTargetsAndCache ==
  orch = "fund" /\ FinalWritten =>
    /\ Len(file.data) = Cardinality(Range(targets) \cup CachedInTier)
    /\ KeyInjective(file.data)
    /\ Range(targets) \subseteq KeysOf(file.data)

\* a final result that merges a cached record with a failed and a new one
FinalCountWitness ==
  /\ orch = "fund" /\ FinalWritten
  /\ CachedInTier # {} /\ failCount > 0 /\ Len(file.data) = MaxTargets

\* ---------------------------------------------------------------- C5
\* C5: merge correctness.  When the cache holds a record for a key and the run
\* produced a record for the same key, the written result holds exactly one
\* record for that key and it is the one the run produced.
MergeCorrect ==
  pc = "merged" =>
    \A n \in 1..Len(acc) :
      HasKey(cache, acc[n].key) =>
        /\ Cardinality({m \in 1..Len(file.data) : file.data[m].key = acc[n].key}) = 1
        /\ \E m \in 1..Len(file.data) : file.data[m] = acc[n]

\* a key with a cached record and a different new record has been merged
MergeCorrectWitness ==
  /\ pc = "merged"
  /\ \E n \in 1..Len(acc), m \in 1..Len(cache) :
       cache[m].key = acc[n].key /\ cache[m] # acc[n] /\ acc[n].error # "null"

\* ---------------------------------------------------------------- C6
\* C6: at most one live connection.  The connection the handle refers to and a
\* connection the scraper opened and no longer refers to are never live together.
OneLiveConnection == ~(orphan /\ browser = "live")

\* ---------------------------------------------------------------- C7
\* C7: torn-write freedom.  At every instant the output file is absent or a
\* complete document, also while a save is in progress.
NoTornWrite == file.st \in {"missing", "ok"}

\* ---------------------------------------------------------------- C8
\* the main loop stands between two units: unit i's save step is over and the
\* next unit has not begun
BetweenUnits == pc = "throttle" \/ (pc = "loop" /\ i > 0)

UnitsDone == IF pc = "throttle" THEN i + 1 ELSE i

\* the data of document f holds what every unit done in this run has produced
Reflects(f) ==
  CASE orch = "fund" ->
         /\ Len(acc) = UnitsDone
         /\ \A n \in 1..Len(acc) : \E m \in 1..Len(f.data) : f.data[m] = acc[n]
    [] orch = "rounds" ->
         /\ f.data = acc
         /\ f.meta.pagesScraped = Cardinality(okNow)
    [] orch = "project" ->
         /\ Len(f.data) = Len(input)
         /\ \A n \in 1..UnitsDone : \A r \in 1..Len(input) :
              input[r] = toScrape[n] =>
                /\ cache[toScrape[n]].has
                /\ f.data[r].details = cache[toScrape[n]].details
                /\ f.data[r].detailsError = cache[toScrape[n]].error

PersistCadence ==
  /\ pc \in {"loop", "attempt", "fetch", "returned", "save"} => nPartial = i
  /\ pc \in {"saving", "throttle"} => nPartial = i + 1
  /\ nFinal = 1 => nPartial = Len(toScrape)
  /\ pc = "done" /\ exitCode = 0 /\ targets # <<>> =>
       nPartial = Len(toScrape) /\ nFinal = 1

\* ---------------------------------------------------------------- C10
\* C10: when a run that had targets has ended with exit code 0, the document in
\* the output file has partial = false.
ExitZeroNotPartial ==
  pc = "done" /\ exitCode = 0 /\ targets # <<>> /\ file.st = "ok" => ~file.partial

\* ---------------------------------------------------------------- C11
\* C11: zero-data rule.  An attempt of scrapeFund / scrapePage / scrapeProject
\* that extracts zero data is retried while attempts remain, and a call whose
\* last attempt extracts zero data returns a result whose error is not null.
ZeroDataIsError ==
  pc = "returned" /\ ret.payload = "none" =>
    ret.error # "null" /\ tries = MAX_RETRIES

\* ---------------------------------------------------------------- C12
\* C12: connection-loss invalidation.  When an attempt fails with one of the
\* connection-loss messages the handle is null before the next attempt, and a
\* failure with another message does not change the handle (apart from the
\* reconnect ensureConnected made at the start of that attempt); an attempt that
\* starts with a null handle opens its tab only on a freshly connected handle.
ConnLossInvalidates ==
  [][ /\ (attempt > 0 /\ attempt' = attempt + 1) =>
            IF lastError' \in ConnLossSignatures
              THEN browser' = "null"
              ELSE \/ browser' = browser
                   \/ pc = "attempt" /\ browser # "live" /\ browser' = "live"
      /\ (pc = "attempt" /\ browser = "null" /\ page') => browser' = "live"
    ]_vars

\* after a connection-loss failure the second attempt has its tab open
ConnLossInvalidatesWitness ==
  pc = "fetch" /\ tries = 2 /\ lastError \in ConnLossSignatures /\ browser = "live"

\* ---------------------------------------------------------------- C13
\* C13: self-healing session.  Every attempt starts with ensureConnected(), which
\* connects exactly when isConnected() is false: whatever the handle is when an
\* attempt starts (null, dead or live) the attempt can open its tab, and a tab is
\* only ever open on a handle that is connected.
SelfHealing ==
  /\ pc = "attempt" => ENABLED TabOpens
  /\ page => browser = "live"

\* the connection died during an attempt (a connection-loss failure that left no
\* open connection behind) and the next attempt has its tab open on a new one
SelfHealingWitness ==
  pc = "fetch" /\ page /\ browser = "live" /\ ~orphan /\ lastError \in ConnLossSignatures

\* ---------------------------------------------------------------- C14
\* the accumulated result of the run holds an entry for target k that carries an
\* error (fund: newResults; project: projectDetails) or, for funding rounds,
\* any entry of page k at all (allData holds rows, which have no error field)
HasFailedRecord(k) ==
  CASE orch = "fund" -> \E n \in 1..Len(acc) : acc[n].key = k /\ acc[n].error # "null"
    [] orch = "rounds" -> \E n \in 1..Len(acc) : acc[n].page = k
    [] orch = "project" -> cache[k].has /\ cache[k].error # "null"

\* C14: a target whose retries are exhausted does not abort the run: once its
\* scrape call has returned, main holds a failed record for it in the accumulated
\* result and goes on to the save step, in each of the three programs.
ExhaustedIsRecorded ==
  pc = "save" /\ Target \notin okNow => exitCode = -1 /\ HasFailedRecord(Target)

\* ---------------------------------------------------------------- C15
\* the scrape call has made MAX_RETRIES attempts and the last one has failed too:
\* it has returned an error, or it has been left by an exception
AllAttemptsFailed ==
  /\ tries = MAX_RETRIES
  /\ \/ pc = "returned" /\ ret.error # "null"
     \/ pc = "done" /\ attempt > 0

\* C15: exhausted-retries result.  When all MAX_RETRIES attempts of a scrape call
\* have failed, the call has returned (it has not thrown) a result without any
\* extracted data whose error is the message of the last attempt's failure.
ExhaustedReturnsLastError ==
  AllAttemptsFailed =>
    /\ pc = "returned"
    /\ ret.payload = "none"
    /\ ret.error \in {lastError, "No social links found"}

\* ---------------------------------------------------------------- C16
\* C16: propagation policy.  A run ends with exit code 1 only at startup (the
\* upstream source or the first connect() failed: no scrape call was made, nothing
\* was saved) or at the final save; no failure of a fetch attempt, whatever the
\* thrown value, and no failure of a partial save ends the run.
ExitOneOnlyAtStartOrFinal ==
  pc = "done" /\ exitCode = 1 =>
    \/ attempt = 0 /\ i = 0 /\ nPartial = 0 /\ nFinal = 0
    \/ attempt = 0 /\ nFinal = 1

\* ---------------------------------------------------------------- C17
\* C17: fatal startup.  No step of the startup of a run (upstream source, cache,
\* first connect) writes the output file or fetches a target, and when the
\* upstream source or the first connect() fails the run ends there with exit
\* code 1.
FatalStartup ==
  [][ (run' = run /\ pc \in {"start", "loadCache", "connect"}) =>
        /\ file' = file
        /\ fetched' = {} /\ tries' = 0
        /\ (pc \in {"start", "connect"} /\ pc' = "done") => exitCode' = 1
    ]_vars

\* the first connect() of a second run has failed: the run has ended with exit
\* code 1 on the file the first run left
FatalStartupWitness ==
  /\ pc = "done" /\ exitCode = 1 /\ run = 2
  /\ scraper /\ browser = "null" /\ tries = 0 /\ fetched = {}
  /\ file.st = "ok" /\ file.partial

\* ---------------------------------------------------------------- C18
\* C18: persistence errors.  A partial save that fails leaves the loop running:
\* the process does not exit, the loop index and the session are untouched, and
\* the step after it is the loop's next iteration; a final save that fails ends
\* the run with exit code 1.
PersistenceErrors ==
  [][ run' = run =>
        /\ (pc = "save" /\ pc' # "saving") =>
              /\ pc' = "throttle" /\ exitCode' = -1
              /\ UNCHANGED <<i, toScrape, acc, browser, file>>
        /\ pc = "throttle" => pc' = "loop" /\ i' = i + 1 /\ exitCode' = -1
        /\ (pc = "final" /\ pc' # "finalizing") => pc' = "done" /\ exitCode' = 1
    ]_vars

\* the save after the first target failed, the second target was fetched with
\* success all the same and its save is being written
PersistenceErrorsWitness ==
  /\ pc = "saving" /\ i = 1 /\ nPartial = 2
  /\ Cardinality(fetched) = 2 /\ Cardinality(okNow) = 2
  /\ okSaved = {}

\* ---------------------------------------------------------------- C19
\* C19: throttle placement.  While unit i + 1 of the loop is processed exactly
\* i throttle waits have been taken (none before the first unit), the fetch of a
\* unit starts only once the persist and the wait of every earlier unit are
\* over and no later unit has been navigated to, and once the loop over K units
\* has ended the waits number K - 1 (none after the last unit).
ThrottlePlacement ==
  /\ pc \in {"attempt", "fetch", "returned", "save", "saving", "throttle"} =>
       /\ i < Len(toScrape)
       /\ nThrottle = i
  /\ pc \in {"attempt", "fetch"} =>
       /\ nPartial = i
       /\ ~page \/ pc = "fetch"
       /\ fetched \subseteq {toScrape[n] : n \in 1..(i + 1)}
  /\ pc \in {"disconnect", "final", "finalizing"} =>
       nThrottle = IF Len(toScrape) = 0 THEN 0 ELSE Len(toScrape) - 1

\* the loop over two targets has ended after one wait
ThrottlePlacementWitness ==
  pc = "final" /\ Len(toScrape) = MaxTargets /\ i = MaxTargets /\ nThrottle = MaxTargets - 1

\* ---------------------------------------------------------------- C20
\* C20: retry delay placement.  In a scrape call the RETRY_DELAY_MS wait has been
\* taken once for every attempt that failed and is followed by another attempt:
\* as many waits as attempts when the next attempt is about to start, one less
\* than attempts while an attempt runs and when the call has ended, so none after
\* the final attempt and none after a successful one.
RetryDelayPlacement ==
  /\ pc = "attempt" => nDelay = tries
  /\ pc = "fetch" => nDelay = tries - 1
  /\ pc = "returned" => nDelay = tries - 1
  /\ pc = "done" /\ attempt > 0 => nDelay = tries - 1

\* a call has returned after MAX_RETRIES failed attempts and MAX_RETRIES - 1 waits
RetryDelayAllFailedWitness ==
  pc = "returned" /\ ret.error # "null" /\ tries = MAX_RETRIES /\ nDelay = MAX_RETRIES - 1

\* ---------------------------------------------------------------- C21
\* C21: single in-flight tab.  At most one tab opened by the scraper is open: the
\* tab of an attempt is closed before the next attempt opens its own, also when
\* closing it raised.
OpenTabs == (IF page THEN 1 ELSE 0) + (IF stale THEN 1 ELSE 0)

SingleTab == OpenTabs <= 1

\* ---------------------------------------------------------------- C22
\* C22: cache eligibility.  The cache loadCache returns holds exactly the persisted
\* records with no error and at least one populated link, a fund whose only
\* links are stored under other_socials included.
PopulatedRecord(f) == f.error = "null" /\ f.links # "none"

CacheEligibility ==
  orch = "fund" /\ pc = "connect" /\ file.st = "ok" =>
    \A n \in 1..Len(file.data) :
      HasKey(cache, file.data[n].key) <=> PopulatedRecord(file.data[n])

\* ---------------------------------------------------------------- C23
\* C23: the cache load never throws.  Whatever the output file holds the load
\* returns and the run goes on, and when the file is missing, unreadable, not
\* valid JSON or JSON of an unexpected shape the map it returns is empty and
\* every target is left to scrape.
UnusableFile(f) ==
  \/ f.st # "ok"
  \/ RaisesInLoad(f, IF orch = "fund" THEN NullFund ELSE NullRound)

CacheIsEmpty ==
  IF orch = "fund" THEN cache = <<>> ELSE CachedKeys(cache) = {}

LoadNeverThrows ==
  pc # "loadCache" =>
    /\ exitCode # 1
    /\ UnusableFile(file) => CacheIsEmpty /\ toScrape = targets

\* ---------------------------------------------------------------- C24
\* C24: FilterCached.  A scrape call is never started for a target whose key is
\* in the cache, a key in the cache stays in it for the rest of the run, and a
\* run in which nothing is left to scrape creates no scraper and opens no
\* connection.
CachedKey(c, k) ==
  IF orch = "project" THEN c # <<>> /\ c[k].has ELSE HasKey(c, k)

FilterCached ==
  [][ run' = run =>
        /\ (pc = "loop" /\ pc' = "attempt") => ~CachedKey(cache, Target)
        /\ pc # "loadCache" => \A k \in Keys : CachedKey(cache, k) => CachedKey(cache', k)
        /\ (pc # "start" /\ pc' # "loadCache" /\ toScrape' = <<>>) =>
              ~scraper' /\ browser' = "null" /\ fetched' = {}
    ]_vars

\* of two targets one is cached and skipped, the other one is being fetched
FilterCachedWitness ==
  /\ pc = "fetch" /\ Len(targets) = 2 /\ Len(toScrape) = 1
  /\ \E k \in Keys : CachedKey(cache, k) /\ k \in Range(targets) /\ k \notin fetched

\* ---------------------------------------------------------------- C25
\* C25: cache immutability.  Once the cache has been loaded no step of the run
\* changes it: no key is added, removed or rebound.
CacheImmutable ==
  [][ (run' = run /\ pc # "loadCache") => cache' = cache ]_vars

\* ---------------------------------------------------------------- C26
\* C26: record invariant.  In every document on disk a record with an error
\* carries no extracted fields: a fund record no links, a project round no
\* details.
RecordInvariant ==
  file.st = "ok" =>
    CASE orch = "fund" ->
           \A n \in 1..Len(file.data) :
             file.data[n].error # "null" => file.data[n].links = "none"
      [] orch = "project" ->
           \A n \in 1..Len(file.data) :
             file.data[n].detailsError # "null" => file.data[n].details = NullDetails
      [] orch = "rounds" -> TRUE

\* a document on disk holds the record of a failed scrape
RecordInvariantWitness ==
  /\ file.st = "ok"
  /\ \E n \in 1..Len(file.data) :
       CASE orch = "fund" -> file.data[n].error # "null"
         [] orch = "project" -> file.data[n].detailsError # "null"
         [] orch = "rounds" -> FALSE

\* ---------------------------------------------------------------- C27
\* C27: disconnect() never throws and is idempotent.  Whatever the handle is when
\* main calls disconnect() (null, live, dead) the call returns, main goes on to
\* the final save, the handle is null, and a second disconnect() would leave it
\* as it is.
DisconnectSafe ==
  [][ (pc = "disconnect" /\ run' = run) =>
        /\ pc' = "final" /\ exitCode' = exitCode
        /\ browser' = "null"
        /\ AfterDisconnect(browser') = browser'
    ]_vars

\* disconnect() has returned in a run that scraped with success and left a
\* connection behind that it could not close
DisconnectSafeWitness ==
  pc = "final" /\ scraper /\ browser = "null" /\ orphan /\ okNow # {}

\* ---------------------------------------------------------------- C28
\* C28: finalize ordering.  The final save is issued with the session handle
\* null and no tab open, and from the disconnect on the run makes no attempt, no
\* fetch and no connect.
FinalizeOrdering ==
  [][ run' = run =>
        /\ nFinal' > nFinal => browser = "null" /\ ~page
        /\ pc \in {"final", "finalizing"} =>
              UNCHANGED <<browser, scraper, attempt, tries, fetched, page>>
    ]_vars

\* the final save is being written by a run that fetched over a connection
FinalizeOrderingWitness ==
  pc = "finalizing" /\ nFinal = 1 /\ scraper /\ browser = "null" /\ fetched # {}

\* ---------------------------------------------------------------- C29
\* C29: merge ordering.  The data array of a document the fund program writes,
\* partial or final, is sorted by tier and within a tier by name (in the order
\* of the comparison the program uses, name.localeCompare), and it is the same
\* array whatever the order in which the cache entries and the new results were
\* inserted.
IsSorted(d) == \A a, b \in 1..Len(d) : a < b => ~FundLess(d[b], d[a])

Reverse(s) == [n \in 1..Len(s) |-> s[Len(s) + 1 - n]]

MergeOrdering ==
  orch = "fund" /\ file.st = "ok" =>
    /\ IsSorted(file.data)
    /\ file.data = MergeResults(Reverse(cache), Reverse(acc), tier2)

\* two funds of one tier were inserted in the reverse order of their names
MergeOrderingWitness ==
  /\ pc = "merged" /\ Len(file.data) >= 2 /\ Len(acc) >= 2
  /\ acc[1].tier = acc[2].tier /\ FundLess(acc[2], acc[1])
  /\ file.data[1].tier = 1 /\ cache # <<>>

\* ---------------------------------------------------------------- C30
\* C30: diagnostic isolation.  A failed screenshot is never the error of an
\* attempt or of a call, and a call in which a screenshot failed has made the
\* attempts and the waits of a call whose screenshots all succeeded: every
\* attempt but the last one was ended by an error that was raised.
DiagnosticIsolation ==
  /\ lastError # ScreenshotMsg
  /\ ret.error # ScreenshotMsg
  /\ (pc = "returned" /\ shotFailed) => nDelay = tries - 1
  /\ (pc = "attempt" /\ shotFailed) => lastError \in ThrownMsgs \cup {RetryingMsg}

\* a call returns its data from the first attempt although the screenshot failed
DiagnosticIsolationWitness ==
  pc = "returned" /\ shotFailed /\ ret.error = "null" /\ ret.payload # "none" /\ tries = 1

\* ---------------------------------------------------------------- C31
\* C31: a content-readiness timeout is not a failure.  The timeout of the
\* readiness wait is never the error of an attempt or of a call, and an attempt
\* whose readiness wait timed out and in which nothing else raised goes on to
\* the extraction and ends as the payload it extracted decides.
Undisturbed(f) == f.nav = "ok" /\ f.close = "ok"

ReadinessTimeoutTolerated ==
  [][ /\ lastError' # SelectorMsg
      /\ ret'.error # SelectorMsg
      /\ (pc = "fetch" /\ lastFetch'.late /\ Undisturbed(lastFetch')) =>
            /\ lastFetch'.p # "none" => pc' = "returned"
            /\ pc' = "returned" =>
                  /\ ret'.payload = lastFetch'.p
                  /\ ret'.error = IF lastFetch'.p = "none" /\ orch = "fund"
                                    THEN "No social links found" ELSE "null"
    ]_vars

\* the readiness wait of the first attempt timed out and the call has returned
\* the data extracted in that attempt
ReadinessTimeoutWitness ==
  /\ pc = "returned" /\ tries = 1 /\ lastFetch.late /\ Undisturbed(lastFetch)
  /\ ret.error = "null" /\ ret.payload # "none"

\* ---------------------------------------------------------------- C32
\* C32: funding-rounds limit.  A run with limit L takes the pages
\* 1..ceil(L / ITEMS_PER_PAGE) in ascending order, each once, and the final
\* document on disk holds at most L rounds.
RoundsWithinLimit ==
  orch = "rounds" =>
    /\ pc # "start" => toScrape = [n \in 1..PagesNeeded(limit) |-> n]
    /\ fetched \subseteq 1..Min(i + 1, Len(toScrape))
    /\ (file.st = "ok" /\ ~file.partial) => SumRows(file.data) <= file.meta.limit

\* ---------------------------------------------------------------- C33
\* C33: counter consistency.  In every document the fund and the project program
\* write, the success count plus the failure count is the total count of the
\* metadata, and the success count is the number of targets in scope whose
\* record has no error.
\* written by the run in progress: the counters are read against its targets
WrittenByThisRun == file.st = "ok" /\ nPartial + nFinal > 0

CountersConsistent ==
  (orch \in {"fund", "project"} /\ WrittenByThisRun) =>
    /\ file.meta.success + file.meta.failed = file.meta.total
    /\ orch = "fund" =>
         file.meta.success =
           Cardinality({n \in 1..Len(file.data) : file.data[n].error = "null"})
    /\ orch = "project" =>
         file.meta.success =
           Cardinality({k \in Range(targets) :
                          \E n \in 1..Len(file.data) :
                            /\ file.data[n].projectKey = k
                            /\ file.data[n].details # NullDetails
                            /\ file.data[n].detailsError = "null"})

\* ---------------------------------------------------------------- C34
\* C34: extracted data survives a failure to close the tab.  An attempt that
\* navigated and extracted non-empty data returns that data with error null from
\* that same attempt, also when page.close() raises afterwards: the attempt is
\* not counted as failed and no further attempt follows.
ExtractedSurvivesClose ==
  [][ (pc = "fetch" /\ lastFetch'.nav = "ok" /\ lastFetch'.p # "none" /\ ~lastFetch'.shot) =>
        /\ pc' = "returned"
        /\ ret' = [payload |-> lastFetch'.p, error |-> "null"]
        /\ lastError' = lastError
    ]_vars

\* ---------------------------------------------------------------- C35
\* C35: no loss of cached work during a run.  In the fund program, every record
\* that loadCache accepted at startup and whose tier is a target tier is in every
\* document the run has written, partial or final, unless the document holds a
\* record of this run for the same key in its place.
CachedWorkKept ==
  (orch = "fund" /\ (WrittenByThisRun \/ pc = "merged")) =>
    \A n \in 1..Len(cache) :
      cache[n].tier \in TargetTiers(tier2) =>
        \/ cache[n] \in Range(file.data)
        \/ \E m \in 1..Len(acc) : acc[m].key = cache[n].key /\ acc[m] \in Range(file.data)

\* a later run has written a partial document and then the final one, both with
\* the records of the cache and the records of this run
CachedWorkWitness ==
  /\ orch = "fund" /\ run = 2 /\ pc = "done" /\ exitCode = 0
  /\ cache # <<>> /\ acc # <<>> /\ nPartial > 0 /\ nFinal = 1
  /\ file.st = "ok" /\ ~file.partial

\* ---------------------------------------------------------------- C36
\* C36: termination.  When every external call returns or raises, a run makes at
\* most MAX_RETRIES attempts for a target and ends, whatever the targets are and
\* whichever attempts fail.
RunsTerminate ==
  /\ [](tries <= MAX_RETRIES)
  /\ <>(pc = "done")

\* a run that has ended with exit code 0 after it recorded a target as failed and
\* another as done
RunsTerminateWitness ==
  /\ pc = "done" /\ exitCode = 0 /\ nFinal = 1
  /\ failCount > 0 /\ successCount > 0

\* ---------------------------------------------------------------- C37
\* C37: enrichment preserves the input.  Every document the project program has
\* written, partial or final, with or without --limit, holds one record per
\* funding round of the input, in the order of the input and with the fields of
\* the round, and the rounds of one projectKey carry the same details and the
\* same detailsError.
EnrichPreservesInput ==
  (orch = "project" /\ file.st = "ok") =>
    /\ Len(file.data) = Len(input)
    /\ \A n \in 1..Len(input) : file.data[n].projectKey = input[n]
    /\ \A n, m \in 1..Len(file.data) :
         file.data[n].projectKey = file.data[m].projectKey =>
           /\ file.data[n].details = file.data[m].details
           /\ file.data[n].detailsError = file.data[m].detailsError

\* a run with --limit has written a document for an input in which two rounds
\* are of one project, and both carry the details of the project
EnrichWitness ==
  /\ orch = "project" /\ file.st = "ok" /\ WrittenByThisRun /\ limit = 1
  /\ \E n, m \in 1..Len(input) :
       /\ n # m /\ input[n] = input[m] /\ input[n] # 0
       /\ file.data[n].details # NullDetails

\* ---------------------------------------------------------------- C38
\* C38: extractUniqueProjects.  For any list of funding rounds the result holds
\* one project for every projectKey that a round carries, none twice, in the
\* order in which the keys first occur in the list; a round without a projectKey
\* (null or empty) gives no project.  (A project is taken by its key.)
FirstRound(rounds, k) == CHOOSE n \in 1..Len(rounds) :
                           rounds[n] = k /\ \A q \in 1..(n - 1) : rounds[q] # k

ExtractUnique ==
  (orch = "project" /\ pc = "loadCache" /\ limit = 0) =>
    /\ \A a, b \in 1..Len(targets) : a # b => targets[a] # targets[b]
    /\ Range(targets) = Range(input) \ {0}
    /\ \A a, b \in 1..Len(targets) :
         a < b => FirstRound(input, targets[a]) < FirstRound(input, targets[b])

\* the projects of a list in which the second key comes first, a key comes twice
\* and a round has no key
ExtractUniqueWitness ==
  /\ orch = "project" /\ pc = "loadCache" /\ limit = 0
  /\ input = <<2, 0, 1, 2>>
  /\ targets = <<2, 1>>

====
